---- MODULE Spec2Model ----
(***************************************************************************)
(* A model of migrate_centos.py: the offline migration of a guest disk     *)
(* image (mount, boot-mode detection, fstab/grub rewrite, remediation      *)
(* actions, teardown).                                                      *)
(*                                                                          *)
(* Python strings are sequences of one-character strings, so that split,   *)
(* rstrip, replace, lower, "in" and the ordering used by sorted() are      *)
(* computed as Python computes them.                                        *)
(***************************************************************************)
EXTENDS Integers, Sequences, FiniteSets, TLC

(***************************************************************************)
(* Bounds of the model.                                                     *)
(***************************************************************************)
\* largest number of entries in a generated guest mount table
MaxMounts == 2
\* largest number of lines in a generated /etc/fstab
MaxLines == 2

(***************************************************************************)
(* Python str operations.                                                   *)
(***************************************************************************)
\* the printable ASCII characters, code points 32..126, in order (the double
\* quote, the backslash and the backtick, which no string of the model holds,
\* stand by name)
Ascii ==
  <<" ","!","dquote","#","$","%","&","'","(",")","*","+",",","-",".","/",
    "0","1","2","3","4","5","6","7","8","9",":",";","<","=",">","?","@",
    "A","B","C","D","E","F","G","H","I","J","K","L","M","N","O","P","Q",
    "R","S","T","U","V","W","X","Y","Z","[","backslash","]","^","_","backtick",
    "a","b","c","d","e","f","g","h","i","j","k","l","m","n","o","p","q",
    "r","s","t","u","v","w","x","y","z","{","|","}","~">>

\* ord(c)
Ord(c) ==
  IF c = "\n" THEN 10
  ELSE IF c = "\t" THEN 9
  ELSE 31 + (CHOOSE k \in 1..Len(Ascii) : Ascii[k] = c)

\* c.lower() for one character
LowerChar(c) == IF Ord(c) \in 65..90 THEN Ascii[Ord(c) + 32 - 31] ELSE c

\* s.lower()
Lower(s) == [k \in 1..Len(s) |-> LowerChar(s[k])]

\* s.startswith(p)
StartsWith(s, p) == Len(s) >= Len(p) /\ SubSeq(s, 1, Len(p)) = p

\* sub in s
Contains(s, sub) ==
  \E k \in 0..(Len(s) - Len(sub)) : SubSeq(s, k + 1, k + Len(sub)) = sub

Digits == {"0","1","2","3","4","5","6","7","8","9"}

\* s.rstrip(digits)
RECURSIVE RStripDigits(_)
RStripDigits(s) ==
  IF s # <<>> /\ s[Len(s)] \in Digits
  THEN RStripDigits(SubSeq(s, 1, Len(s) - 1))
  ELSE s

\* s.split(c) for a one-character separator: the pieces, empty ones included
RECURSIVE Split(_, _)
Split(s, c) ==
  IF \E k \in 1..Len(s) : s[k] = c
  THEN LET k == CHOOSE j \in 1..Len(s) :
                   s[j] = c /\ \A m \in 1..(j - 1) : s[m] # c
       IN  <<SubSeq(s, 1, k - 1)>> \o Split(SubSeq(s, k + 1, Len(s)), c)
  ELSE <<s>>

\* sep.join(parts)
RECURSIVE Join(_, _)
Join(parts, sep) ==
  IF parts = <<>> THEN <<>>
  ELSE IF Len(parts) = 1 THEN parts[1]
  ELSE parts[1] \o sep \o Join(Tail(parts), sep)

\* s.replace(old, new): non-overlapping occurrences, left to right
RECURSIVE Replace(_, _, _)
Replace(s, old, new) ==
  IF Len(s) < Len(old) THEN s
  ELSE IF StartsWith(s, old)
       THEN new \o Replace(SubSeq(s, Len(old) + 1, Len(s)), old, new)
       ELSE <<s[1]>> \o Replace(Tail(s), old, new)

Whitespace == {" ", "\t", "\n", "\r", "\f"}

\* s.lstrip()
RECURSIVE LStrip(_)
LStrip(s) == IF s # <<>> /\ s[1] \in Whitespace THEN LStrip(Tail(s)) ELSE s

\* s.rstrip()
RECURSIVE RStrip(_)
RStrip(s) ==
  IF s # <<>> /\ s[Len(s)] \in Whitespace
  THEN RStrip(SubSeq(s, 1, Len(s) - 1))
  ELSE s

\* s.strip()
Strip(s) == RStrip(LStrip(s))

\* s.split(): the maximal runs of non-whitespace characters
RECURSIVE SplitWs(_)
SplitWs(s) ==
  LET t == LStrip(s) IN
  IF t = <<>> THEN <<>>
  ELSE LET n == IF \E k \in 1..Len(t) : t[k] \in Whitespace
                THEN (CHOOSE j \in 1..Len(t) :
                        t[j] \in Whitespace /\ \A m \in 1..(j - 1) : t[m] \notin Whitespace) - 1
                ELSE Len(t)
       IN  <<SubSeq(t, 1, n)>> \o SplitWs(SubSeq(t, n + 1, Len(t)))

\* a < b for two str: lexicographic on code points
RECURSIVE StrLess(_, _)
StrLess(a, b) ==
  IF b = <<>> THEN FALSE
  ELSE IF a = <<>> THEN TRUE
  ELSE IF a[1] # b[1] THEN Ord(a[1]) < Ord(b[1])
  ELSE StrLess(Tail(a), Tail(b))

\* (a1, a2) < (b1, b2) for two tuples of str, as sorted() compares dict items
ItemLess(x, y) == IF x[1] # y[1] THEN StrLess(x[1], y[1]) ELSE StrLess(x[2], y[2])

\* d.items() of a dict
Items(d) == {<<k, d[k]>> : k \in DOMAIN d}

\* sorted(S) of a set of items
RECURSIVE Sorted(_)
Sorted(S) ==
  IF S = {} THEN <<>>
  ELSE LET m == CHOOSE x \in S : \A y \in S \ {x} : ItemLess(x, y)
       IN  <<m>> \o Sorted(S \ {m})

\* x in seq (list membership)
InList(x, seq) == \E k \in 1..Len(seq) : seq[k] = x

(***************************************************************************)
(* String literals of the program.                                          *)
(***************************************************************************)
Slash == <<"/">>
Newline == <<"\n">>
DevVda == <<"/","d","e","v","/","v","d","a">>
DevSda == <<"/","d","e","v","/","s","d","a">>
DevVdb == <<"/","d","e","v","/","v","d","b">>
DevPrefix == <<"/","d","e","v","/">>
Hash == <<"#">>
CommentPrefix == <<"#"," ">>
CommentSuffix ==
  <<" ","#"," ","C","o","m","m","e","n","t","e","d"," ","b","y"," ",
    "m","i","g","r","a","t","i","o","n"," ","-"," ","d","i","s","k"," ",
    "n","o","t"," ","a","v","a","i","l","a","b","l","e">>
\* the skip words of guest_mount and fix_fstab_for_scaleway
SkipWords ==
  << <<"b","a","c","k","u","p">>, <<"d","a","t","a">>,
     <<"s","t","o","r","a","g","e">> >>
BootEfi == <<"/","b","o","o","t","/","e","f","i">>

\* any(skip_word in mountpoint.lower() for skip_word in [...])
has_skip_word(mountpoint) ==
  \E k \in 1..Len(SkipWords) : Contains(Lower(mountpoint), SkipWords[k])

\* guest_mount's device_parts / device_base: <<defined, device_base>>
mount_device_base(device) ==
  LET device_parts == Split(device, "/") IN
  IF Len(device_parts) >= 3
  THEN <<TRUE, RStripDigits(Slash \o Join(SubSeq(device_parts, 2, 3), Slash))>>
  ELSE <<FALSE, <<>>>>

\* guest_mount with the keyword test left out: every entry of a missing disk
\* is skipped
mount_skipped_any_missing(single_disk_mode, device, mountpoint, avail) ==
  /\ single_disk_mode
  /\ mount_device_base(device)[1]
  /\ mount_device_base(device)[2] \notin avail

\* guest_mount: whether the entry is skipped (the continue)
mount_skipped(single_disk_mode, device, mountpoint, avail) ==
  /\ single_disk_mode
  /\ mount_device_base(device)[1]
  /\ mount_device_base(device)[2] \notin avail
  /\ has_skip_word(mountpoint)

(***************************************************************************)
(* Inputs: what the guest image and the session hold.                       *)
(***************************************************************************)
\* /
MpRoot == <<"/">>
\* /boot
MpBoot == <<"/","b","o","o","t">>
\* /boot/efi
MpBootEfi == <<"/","b","o","o","t","/","e","f","i">>
\* /backup
MpBackup == <<"/","b","a","c","k","u","p">>
\* /data
MpData == <<"/","d","a","t","a">>
\* /data/www
MpDataWww == <<"/","d","a","t","a","/","w","w","w">>
\* /home
MpHome == <<"/","h","o","m","e">>
\* /mnt/Storage
MpStorage == <<"/","m","n","t","/","S","t","o","r","a","g","e">>
\* /dev/vda1
Vda1 == <<"/","d","e","v","/","v","d","a","1">>
\* /dev/vda2
Vda2 == <<"/","d","e","v","/","v","d","a","2">>
\* /dev/vda3
Vda3 == <<"/","d","e","v","/","v","d","a","3">>
\* /dev/vdb1
Vdb1 == <<"/","d","e","v","/","v","d","b","1">>
\* vdb1
BareVdb1 == <<"v","d","b","1">>
\* /dev/mapper/vg-data
MapperData == <<"/","d","e","v","/","m","a","p","p","e","r","/","v","g","-","d","a","t","a">>

\* mountpoints a guest may declare, and the devices it may declare them on
MountpointPool == {MpRoot, MpBoot, MpBootEfi, MpBackup, MpData, MpDataWww, MpHome, MpStorage}
DevicePool == {Vda1, Vdb1, BareVdb1, MapperData}

\* every dict of at most MaxMounts entries over the pools
GeneratedTables ==
  UNION {[D -> DevicePool] : D \in {X \in SUBSET MountpointPool : Cardinality(X) <= MaxMounts}}

\* the sets of devices g.list_devices() may report
DeviceSets == {{DevSda}, {DevVda}, {DevVda, DevVdb}}

VARIABLES
  pc,                \* the statement main is at
  error,             \* the exception that ended the run, "" while there is none
  calls,             \* the toolkit calls made so far, in order:
                     \* <<function, call, "ok" | "nonzero" | "raised">>
  roots,             \* g.inspect_os()
  mountpoints,       \* g.inspect_get_mountpoints(root): mountpoint -> device
  devices,           \* g.list_devices()
  image0,            \* the config files as the guest image held them at launch
  files,             \* the config files of the mounted tree: path -> [exists, text]
  tree,              \* what exists under /boot/efi
  available_devices, \* guest_mount: available_devices
  plan,              \* guest_mount: the sorted items the for loop walks
  idx,               \* guest_mount: position of the for loop in plan
  mounted,           \* guest_mount: mounted
  attempted,         \* the g.mount calls, in order: <<mountpoint, "ok" | "raised">>
  skipped,           \* the mountpoints the loop skipped (continue), in order
  mounted_points,    \* main: mounted_points
  boot_mode,         \* main: boot_mode
  fstab_content,     \* fix_fstab_for_scaleway: fstab_content
  original_content,  \* fix_fstab_for_scaleway: original_content
  grub_idx,          \* fix_grub_for_scaleway: position in grub_cfg_paths
  actions,           \* main: actions
  ai,                \* main: position of the for loop in actions
  executed           \* the positions of the actions that were invoked, in order

vars ==
  <<pc, error, calls, roots, mountpoints, devices, image0, files, tree,
    available_devices, plan, idx, mounted, attempted, skipped,
    mounted_points, boot_mode, fstab_content, original_content, grub_idx,
    actions, ai, executed>>

inputV == <<roots, mountpoints, devices, tree, image0>>
mountV == <<available_devices, plan, idx, mounted, attempted, skipped>>
fstabV == <<fstab_content, original_content>>
runV == <<actions, ai, executed>>
laterV == <<fstabV, grub_idx, runV>>

\* an exception leaves main: nothing after the raising statement runs
Raise(what) == pc' = "aborted" /\ error' = what

\* the remediation actions right after the detection, the rewrite passes left out
main_after_no_rewrite(step) ==
  CASE step = "guest_mount" -> "detect"
    [] step = "detect_boot_mode" -> "build_actions"
    [] step = "fix_fstab" -> "grub_default"
    [] step = "fix_grub" -> "build_actions"

\* main, lines 200-210: the statement that follows the return of a step
main_after(step) ==
  CASE step = "guest_mount" -> "detect"
    [] step = "detect_boot_mode" -> "fstab"
    [] step = "fix_fstab" -> "grub_default"
    [] step = "fix_grub" -> "build_actions"

(***************************************************************************)
(* main, lines 189-197: open the session.                                   *)
(***************************************************************************)
Launch ==
  /\ pc = "launch"
  /\ \/ /\ calls' = Append(calls, <<"main", "launch", "ok">>)
        /\ pc' = "inspect_os"
        /\ error' = error
     \/ /\ calls' = Append(calls, <<"main", "launch", "raised">>)
        /\ Raise("launch")
  /\ UNCHANGED <<inputV, files, mountV, mounted_points, boot_mode, laterV>>

(***************************************************************************)
(* guest_mount, lines 59-96.                                                *)
(***************************************************************************)
single_disk_mode == TRUE

\* only an empty list of roots is refused
single_root_nonempty(r) == Len(r) >= 1

\* line 62, negated: the run goes on
single_root(r) == Len(r) = 1

\* roots = g.inspect_os(); if len(roots) != 1: raise
InspectOs ==
  /\ pc = "inspect_os"
  /\ \/ /\ calls' = Append(calls, <<"guest_mount", "inspect_os", "ok">>)
        /\ IF single_root(roots)
           THEN pc' = "list_devices" /\ error' = error
           ELSE Raise("roots")
     \/ /\ calls' = Append(calls, <<"guest_mount", "inspect_os", "raised">>)
        /\ Raise("inspect_os")
  /\ UNCHANGED <<inputV, files, mountV, mounted_points, boot_mode, laterV>>

\* available_devices = set(g.list_devices())
MountListDevices ==
  /\ pc = "list_devices"
  /\ \/ /\ calls' = Append(calls, <<"guest_mount", "list_devices", "ok">>)
        /\ available_devices' = devices
        /\ pc' = "get_mountpoints"
        /\ error' = error
     \/ /\ calls' = Append(calls, <<"guest_mount", "list_devices", "raised">>)
        /\ Raise("list_devices")
        /\ UNCHANGED available_devices
  /\ UNCHANGED <<inputV, files, plan, idx, mounted, attempted, skipped,
                 mounted_points, boot_mode, laterV>>

\* the items in descending order
mount_plan_reversed(d) ==
  LET up == Sorted(Items(d)) IN [k \in 1..Len(up) |-> up[Len(up) + 1 - k]]

\* sorted(g.inspect_get_mountpoints(root).items())
mount_plan(d) == Sorted(Items(d))

InspectGetMountpoints ==
  /\ pc = "get_mountpoints"
  /\ \/ /\ calls' = Append(calls, <<"guest_mount", "inspect_get_mountpoints", "ok">>)
        /\ plan' = mount_plan(mountpoints)
        /\ idx' = 1
        /\ pc' = "mount_loop"
        /\ error' = error
     \/ /\ calls' = Append(calls, <<"guest_mount", "inspect_get_mountpoints", "raised">>)
        /\ Raise("inspect_get_mountpoints")
        /\ UNCHANGED <<plan, idx>>
  /\ UNCHANGED <<inputV, files, available_devices, mounted, attempted, skipped,
                 mounted_points, boot_mode, laterV>>

\* the append made before g.mount is known to have returned
mounted_after_always(m, mountpoint, result) == Append(m, mountpoint)

\* lines 88-94: mounted after g.mount returned or raised (the except only logs)
mounted_after(m, mountpoint, result) ==
  IF result = "ok" THEN Append(m, mountpoint) ELSE m

\* one iteration of the for loop, lines 73-94
MountEntry ==
  /\ pc = "mount_loop"
  /\ idx <= Len(plan)
  /\ LET mountpoint == plan[idx][1]
         device == plan[idx][2]
     IN  \/ /\ mount_skipped(single_disk_mode, device, mountpoint, available_devices)
            /\ skipped' = Append(skipped, mountpoint)
            /\ UNCHANGED <<calls, mounted, attempted>>
         \/ /\ ~mount_skipped(single_disk_mode, device, mountpoint, available_devices)
            /\ \E result \in {"ok", "raised"} :
                 /\ calls' = Append(calls, <<"guest_mount", "mount", result>>)
                 /\ attempted' = Append(attempted, <<mountpoint, result>>)
                 /\ mounted' = mounted_after(mounted, mountpoint, result)
            /\ UNCHANGED skipped
  /\ idx' = idx + 1
  /\ UNCHANGED <<pc, error, inputV, files, available_devices, plan,
                 mounted_points, boot_mode, laterV>>

\* the loop is exhausted: return mounted
GuestMountReturn ==
  /\ pc = "mount_loop"
  /\ idx > Len(plan)
  /\ mounted_points' = mounted
  /\ pc' = main_after("guest_mount")
  /\ UNCHANGED <<error, calls, inputV, files, mountV, boot_mode, laterV>>

guest_mount ==
  \/ InspectOs
  \/ MountListDevices
  \/ InspectGetMountpoints
  \/ MountEntry
  \/ GuestMountReturn

\* the config files of a tree that has none
NoFile == [exists |-> FALSE, text |-> <<>>]
ConfigPaths ==
  {"/etc/fstab", "/etc/fstab.bak.migration", "/etc/default/grub",
   "/boot/grub2/grub.cfg", "/boot/grub/grub.cfg"}
NoTree == [efi_exists |-> FALSE, efi_is_dir |-> FALSE, efi_payload |-> FALSE]

(***************************************************************************)
(* detect_boot_mode, lines 41-56.                                           *)
(***************************************************************************)
\* The call sites of detect_boot_mode, in evaluation order:
\*   1 g.exists("/boot/efi")        2 g.is_dir("/boot/efi")
\*   3 g.exists("/boot/efi/EFI")    4 g.exists("/boot/grub2/grub.cfg")
\*   5 g.exists("/boot/grub/grub.cfg")
\* failing is the call site whose toolkit call raises when reached (0: none).
\* The value is [ret, ops]: what is returned ("raise" when an exception
\* leaves the function) and the calls made.
detect_legacy(t, f, failing, ops) ==
  IF failing = 4 THEN [ret |-> "raise", ops |-> ops \o <<"exists">>]
  ELSE IF f["/boot/grub2/grub.cfg"].exists
       THEN [ret |-> "legacy", ops |-> ops \o <<"exists">>]
  ELSE IF failing = 5 THEN [ret |-> "raise", ops |-> ops \o <<"exists", "exists">>]
  ELSE [ret |-> "legacy", ops |-> ops \o <<"exists", "exists">>]

\* the legacy grub.cfg files looked at first
detect_legacy_first(t, f, failing) ==
  IF f["/boot/grub2/grub.cfg"].exists \/ f["/boot/grub/grub.cfg"].exists
  THEN detect_legacy(t, f, failing, <<>>)
  ELSE IF t.efi_exists /\ t.efi_is_dir /\ t.efi_payload
       THEN [ret |-> "uefi", ops |-> <<"exists", "exists", "exists", "is_dir", "exists">>]
       ELSE [ret |-> "legacy", ops |-> <<"exists", "exists", "exists">>]

detect_boot_mode(t, f, failing) ==
  IF failing = 1 THEN [ret |-> "raise", ops |-> <<"exists">>]
  ELSE IF ~t.efi_exists THEN detect_legacy(t, f, failing, <<"exists">>)
  ELSE IF failing = 2 THEN [ret |-> "raise", ops |-> <<"exists", "is_dir">>]
  ELSE IF ~t.efi_is_dir THEN detect_legacy(t, f, failing, <<"exists", "is_dir">>)
  ELSE IF failing = 3 THEN [ret |-> "raise", ops |-> <<"exists", "is_dir", "exists">>]
  ELSE IF t.efi_payload THEN [ret |-> "uefi", ops |-> <<"exists", "is_dir", "exists">>]
  ELSE detect_legacy(t, f, failing, <<"exists", "is_dir", "exists">>)

\* the calls of function fn, for the log; the last one raised when raised holds
CallsOf(fn, ops, raised) ==
  [k \in 1..Len(ops) |->
     <<fn, ops[k], IF raised /\ k = Len(ops) THEN "raised" ELSE "ok">>]

\* main, line 203: boot_mode = detect_boot_mode(g)
DetectBootMode ==
  /\ pc = "detect"
  /\ \E failing \in 0..5 :
       LET r == detect_boot_mode(tree, files, failing) IN
       /\ calls' = calls \o CallsOf("detect_boot_mode", r.ops, r.ret = "raise")
       /\ \/ /\ r.ret # "raise"
             /\ boot_mode' = r.ret
             /\ pc' = main_after("detect_boot_mode")
             /\ error' = error
          \/ /\ r.ret = "raise"
             /\ Raise("detect_boot_mode")
             /\ UNCHANGED boot_mode
  /\ UNCHANGED <<inputV, files, mountV, mounted_points, laterV>>

(***************************************************************************)
(* fix_fstab_for_scaleway, lines 99-157.                                    *)
(***************************************************************************)
\* the commented copy without its leading "# "
fstab_line_unmarked(line, avail) ==
  IF Strip(line) = <<>> \/ StartsWith(Strip(line), Hash) THEN line
  ELSE LET parts == SplitWs(line) IN
       IF Len(parts) >= 2 /\ StartsWith(parts[1], DevPrefix)
          /\ RStripDigits(parts[1]) \notin avail /\ has_skip_word(parts[2])
       THEN line \o CommentSuffix
       ELSE line

\* the availability rule applied to every first field, device path or not
fstab_line_any_source(line, avail) ==
  IF Strip(line) = <<>> \/ StartsWith(Strip(line), Hash) THEN line
  ELSE LET parts == SplitWs(line) IN
       IF Len(parts) >= 2
          /\ RStripDigits(parts[1]) \notin avail /\ has_skip_word(parts[2])
       THEN CommentPrefix \o line \o CommentSuffix
       ELSE line

\* lines 116-143: what the loop appends to new_lines for one line
fstab_line(line, avail) ==
  IF Strip(line) = <<>> \/ StartsWith(Strip(line), Hash) THEN line
  ELSE LET parts == SplitWs(line) IN
       IF Len(parts) >= 2
       THEN LET device == parts[1]
                mountpoint == parts[2]
            IN  IF StartsWith(device, DevPrefix)
                THEN LET device_base == RStripDigits(device) IN
                     IF device_base \notin avail /\ has_skip_word(mountpoint)
                     THEN CommentPrefix \o line \o CommentSuffix
                     ELSE line
                ELSE line
       ELSE line

\* the text left as it was read
fstab_substitute_none(content) == content

\* lines 106-107: the vda -> sda substitution
fstab_substitute(content) ==
  IF Contains(content, DevVda) THEN Replace(content, DevVda, DevSda) ELSE content

\* lines 111-145: the per-line pass over the substituted text
fstab_comment_out(content, avail) ==
  LET lines == Split(content, "\n")
      new_lines == [k \in 1..Len(lines) |-> fstab_line(lines[k], avail)]
  IN  Join(new_lines, Newline)

\* the text fix_fstab_for_scaleway computes from the text it read
fstab_rewrite(content, avail) ==
  IF single_disk_mode
  THEN fstab_comment_out(fstab_substitute(content), avail)
  ELSE fstab_substitute(content)

\* an exception inside the try block: logged, the function returns
FstabExcept == pc' = main_after("fix_fstab")

\* lines 102-108: read the file, substitute
FstabCat ==
  /\ pc = "fstab"
  /\ \/ /\ files["/etc/fstab"].exists
        /\ calls' = Append(calls, <<"fix_fstab", "cat", "ok">>)
        /\ original_content' = files["/etc/fstab"].text
        /\ fstab_content' = fstab_substitute(files["/etc/fstab"].text)
        /\ pc' = "fstab_lines"
     \/ /\ calls' = Append(calls, <<"fix_fstab", "cat", "raised">>)
        /\ FstabExcept
        /\ UNCHANGED fstabV
  /\ UNCHANGED <<error, inputV, files, mountV, mounted_points, boot_mode,
                 grub_idx, runV>>

\* the file is moved aside and written whether the text changed or not
fstab_after_compare_always(new_content, original) == "fstab_mv"

\* line 148: the rename and the write are made only when the text changed
fstab_after_compare(new_content, original) ==
  IF new_content # original THEN "fstab_mv" ELSE main_after("fix_fstab")

\* lines 111-148: list the devices, rewrite the lines, compare
FstabLines ==
  /\ pc = "fstab_lines"
  /\ \/ /\ calls' = Append(calls, <<"fix_fstab", "list_devices", "ok">>)
        /\ fstab_content' = fstab_comment_out(fstab_content, devices)
        /\ pc' = fstab_after_compare(fstab_content', original_content)
     \/ /\ calls' = Append(calls, <<"fix_fstab", "list_devices", "raised">>)
        /\ FstabExcept
        /\ UNCHANGED fstab_content
  /\ UNCHANGED <<error, inputV, files, mountV, mounted_points, boot_mode,
                 original_content, grub_idx, runV>>

\* g.mv(src, dst) when it returns
mv(f, src, dst) == [f EXCEPT ![dst] = f[src], ![src] = NoFile]

\* an exception of g.mv swallowed: the write follows in any case
fstab_after_mv_ignored(result) == "fstab_write"

\* lines 150-157: after g.mv the write follows; an exception of g.mv reaches
\* the except of the function, which returns
fstab_after_mv(result) ==
  IF result = "ok" THEN "fstab_write" ELSE main_after("fix_fstab")

\* line 150: g.mv("/etc/fstab", "/etc/fstab.bak.migration")
FstabMv ==
  /\ pc = "fstab_mv"
  /\ \E result \in {"ok", "raised"} :
       /\ calls' = Append(calls, <<"fix_fstab", "mv", result>>)
       /\ files' = IF result = "ok"
                   THEN mv(files, "/etc/fstab", "/etc/fstab.bak.migration")
                   ELSE files
       /\ pc' = fstab_after_mv(result)
  /\ UNCHANGED <<error, inputV, mountV, mounted_points, boot_mode, laterV>>

\* what a g.write(path, content) that raised may leave at path: the file as
\* it was, or a file holding a part of content
WriteFailed(old, content) ==
  {old} \cup {[exists |-> TRUE, text |-> SubSeq(content, 1, n)] :
                n \in {0, Len(content) \div 2}}

\* line 153: g.write("/etc/fstab", fstab_content)
FstabWrite ==
  /\ pc = "fstab_write"
  /\ \/ /\ calls' = Append(calls, <<"fix_fstab", "write", "ok">>)
        /\ files' = [files EXCEPT !["/etc/fstab"] =
                       [exists |-> TRUE, text |-> fstab_content]]
     \/ /\ calls' = Append(calls, <<"fix_fstab", "write", "raised">>)
        /\ \E left \in WriteFailed(files["/etc/fstab"], fstab_content) :
             files' = [files EXCEPT !["/etc/fstab"] = left]
  /\ pc' = main_after("fix_fstab")
  /\ UNCHANGED <<error, inputV, mountV, mounted_points, boot_mode, laterV>>

fix_fstab_for_scaleway == FstabCat \/ FstabLines \/ FstabMv \/ FstabWrite

(***************************************************************************)
(* fix_grub_for_scaleway, lines 160-185.                                    *)
(***************************************************************************)
\* lines 167, 178: the substitution, applied when "/dev/vda" in content
grub_fixed(content) == Replace(content, DevVda, DevSda)

\* The toolkit calls made for one target file: exists, then cat when the file
\* exists, then write when the text holds /dev/vda.  failing is the call that
\* raises when reached (0: none, 1: exists, 2: cat, 3: write).  The value is
\* [raised, ops]: the call that raised (0: none) and the calls made.
grub_file_calls(file, failing) ==
  IF failing = 1 THEN [raised |-> 1, ops |-> <<"exists">>]
  ELSE IF ~file.exists THEN [raised |-> 0, ops |-> <<"exists">>]
  ELSE IF failing = 2 THEN [raised |-> 2, ops |-> <<"exists", "cat">>]
  ELSE IF ~Contains(file.text, DevVda) THEN [raised |-> 0, ops |-> <<"exists", "cat">>]
  ELSE IF failing = 3 THEN [raised |-> 3, ops |-> <<"exists", "cat", "write">>]
  ELSE [raised |-> 0, ops |-> <<"exists", "cat", "write">>]

\* what the calls leave at the file's path
grub_file_after(file, r) ==
  IF r.ops # <<"exists", "cat", "write">> THEN {file}
  ELSE IF r.raised = 3 THEN WriteFailed(file, grub_fixed(file.text))
  ELSE {[exists |-> TRUE, text |-> grub_fixed(file.text)]}

grub_cfg_paths == <<"/boot/grub2/grub.cfg", "/boot/grub/grub.cfg">>

\* lines 164-169: /etc/default/grub; an exception reaches the outer except
\* and the function returns
GrubDefault ==
  /\ pc = "grub_default"
  /\ \E failing \in 0..3 :
       LET r == grub_file_calls(files["/etc/default/grub"], failing) IN
       /\ calls' = calls \o CallsOf("fix_grub", r.ops, r.raised # 0)
       /\ \E left \in grub_file_after(files["/etc/default/grub"], r) :
            files' = [files EXCEPT !["/etc/default/grub"] = left]
       /\ pc' = IF r.raised = 0 THEN "grub_cfg" ELSE main_after("fix_grub")
  /\ grub_idx' = 1
  /\ UNCHANGED <<error, inputV, mountV, mounted_points, boot_mode, fstabV, runV>>

\* lines 173-182: one iteration over grub_cfg_paths; g.exists is outside the
\* inner try, g.cat and g.write are inside it
GrubCfg ==
  /\ pc = "grub_cfg"
  /\ grub_idx <= Len(grub_cfg_paths)
  /\ \E failing \in 0..3 :
       LET grub_cfg == grub_cfg_paths[grub_idx]
           r == grub_file_calls(files[grub_cfg], failing)
       IN  /\ calls' = calls \o CallsOf("fix_grub", r.ops, r.raised # 0)
           /\ \E left \in grub_file_after(files[grub_cfg], r) :
                files' = [files EXCEPT ![grub_cfg] = left]
           /\ pc' = IF r.raised = 1 \/ grub_idx = Len(grub_cfg_paths)
                    THEN main_after("fix_grub") ELSE "grub_cfg"
  /\ grub_idx' = grub_idx + 1
  /\ UNCHANGED <<error, inputV, mountV, mounted_points, boot_mode, fstabV, runV>>

fix_grub_for_scaleway == GrubDefault \/ GrubCfg

(***************************************************************************)
(* main, lines 209-240: the action list, the runner, the teardown.          *)
(***************************************************************************)
\* lines 13-38; the arguments are opaque to main: the numeric modes are written
\* as text and the shell commands without their quoting
BASE_ACTIONS ==
  << <<"copy_in", "bases", "/run">>,
     <<"sh", "chown -R 0:0 /run/bases">>,
     <<"cp_a", "/run/bases/root", "/">>,
     <<"cp_a", "/run/bases/etc", "/">>,
     <<"chmod", "448", "/root">>,
     <<"chmod", "448", "/root/.ssh">>,
     <<"chmod", "420", "/etc/sysconfig/qemu-ga.scaleway">>,
     <<"chmod", "420", "/etc/systemd/system/qemu-guest-agent.service.d/50-scaleway.conf">>,
     <<"chmod", "420", "/etc/NetworkManager/conf.d/00-scaleway.conf">>,
     <<"chmod", "436", "/root/.ssh/instance_keys">>,
     <<"chmod", "493", "/etc">>,
     <<"chmod", "493", "/etc/sysconfig">>,
     <<"chmod", "493", "/etc/systemd">>,
     <<"chmod", "493", "/etc/systemd/system">>,
     <<"chmod", "493", "/etc/systemd/system/qemu-guest-agent.service.d">>,
     <<"chmod", "493", "/etc/NetworkManager">>,
     <<"chmod", "493", "/etc/NetworkManager/conf.d">>,
     <<"sh", "echo timeout 5; > /etc/dhcp/dhclient.conf">>,
     <<"sh", "rm -Rf /run/bases">>,
     <<"sh", "rm -f /etc/ld.so.cache">>,
     <<"sh", ": > /etc/machine-id">>,
     <<"sh", "grubby --args=console=ttyS0,115200n8 --update-kernel $(grubby --default-kernel)">>,
     <<"sh", "systemctl set-default multi-user.target">>,
     <<"sh", "sed -ri arp_ignore /etc/sysctl.conf">> >>

UmountEfi == <<"umount", "/boot/efi">>
SelinuxRelabel ==
  << <<"selinux_relabel", "/etc/selinux/targeted/contexts/files/file_contexts", "/boot">>,
     <<"selinux_relabel", "/etc/selinux/targeted/contexts/files/file_contexts", "/">> >>

\* the unmount appended on the boot mode alone
build_actions_uefi_only(mode, mnt) ==
  BASE_ACTIONS
    \o (IF mode = "uefi" THEN <<UmountEfi>> ELSE <<>>)
    \o SelinuxRelabel

\* lines 210-220: the list main assembles
build_actions(mode, mnt) ==
  BASE_ACTIONS
    \o (IF mode = "uefi" /\ InList(BootEfi, mnt) THEN <<UmountEfi>> ELSE <<>>)
    \o SelinuxRelabel

BuildActions ==
  /\ pc = "build_actions"
  /\ actions' = build_actions(boot_mode, mounted_points)
  /\ ai' = 1
  /\ pc' = "run"
  /\ UNCHANGED <<error, calls, inputV, files, mountV, mounted_points, boot_mode,
                 fstabV, grub_idx, executed>>

\* line 235: the actions whose failure is only logged
NonCritical == {"umount", "selinux_relabel"}

\* a nonzero return value let through: only an exception of the call is fatal
action_fatal_raised_only(mname, result) ==
  result = "raised" /\ mname \notin NonCritical

\* every failure fatal, whatever the name of the action
action_fatal_any(mname, result) == result # "ok"

\* lines 228-236: the failure of the action leaves the runner (raise)
action_fatal(mname, result) ==
  result # "ok" /\ mname \notin NonCritical

\* lines 223-236: one iteration of the runner; the call returns None or 0,
\* returns a nonzero int, or raises
RunAction ==
  /\ pc = "run"
  /\ ai <= Len(actions)
  /\ LET mname == actions[ai][1] IN
     /\ executed' = Append(executed, ai)
     /\ \E result \in {"ok", "nonzero", "raised"} :
          /\ calls' = Append(calls, <<"main", mname, result>>)
          /\ IF action_fatal(mname, result)
             THEN Raise(mname) /\ UNCHANGED ai
             ELSE ai' = ai + 1 /\ UNCHANGED <<pc, error>>
  /\ UNCHANGED <<inputV, files, mountV, mounted_points, boot_mode, fstabV,
                 grub_idx, actions>>

\* line 239: g.shutdown()
Shutdown ==
  /\ pc = "run"
  /\ ai > Len(actions)
  /\ \/ /\ calls' = Append(calls, <<"main", "shutdown", "ok">>)
        /\ pc' = "close"
        /\ error' = error
     \/ /\ calls' = Append(calls, <<"main", "shutdown", "raised">>)
        /\ Raise("shutdown")
  /\ UNCHANGED <<inputV, files, mountV, mounted_points, boot_mode, laterV>>

\* line 240: g.close()
Close ==
  /\ pc = "close"
  /\ \/ /\ calls' = Append(calls, <<"main", "close", "ok">>)
        /\ pc' = "done"
        /\ error' = error
     \/ /\ calls' = Append(calls, <<"main", "close", "raised">>)
        /\ Raise("close")
  /\ UNCHANGED <<inputV, files, mountV, mounted_points, boot_mode, laterV>>

\* the state after construction, the inputs left open
InitLocals ==
  /\ pc = "launch"
  /\ error = ""
  /\ calls = <<>>
  /\ available_devices = {}
  /\ plan = <<>>
  /\ idx = 1
  /\ mounted = <<>>
  /\ attempted = <<>>
  /\ skipped = <<>>
  /\ mounted_points = <<>>
  /\ boot_mode = ""
  /\ fstab_content = <<>>
  /\ original_content = <<>>
  /\ grub_idx = 1
  /\ actions = <<>>
  /\ ai = 1
  /\ executed = <<>>

(***************************************************************************)
(* Texts the config files of a guest may hold.                              *)
(***************************************************************************)
\* /dev/vda1 / xfs
LineRoot == <<"/","d","e","v","/","v","d","a","1"," ","/"," ","x","f","s">>
\* /dev/vda2 /boot xfs
LineBoot == <<"/","d","e","v","/","v","d","a","2"," ","/","b","o","o","t"," ","x","f","s">>
\* /dev/vdb1 /backup xfs
LineBackup == <<"/","d","e","v","/","v","d","b","1"," ","/","b","a","c","k","u","p"," ","x","f","s">>
\* /dev/vda2 /boot/efi vfat
LineEfi == <<"/","d","e","v","/","v","d","a","2"," ","/","b","o","o","t","/","e","f","i"," ","v","f","a","t">>
\* /dev/vda3 /data xfs
LineData == <<"/","d","e","v","/","v","d","a","3"," ","/","d","a","t","a"," ","x","f","s">>
\* UUID=ab /data xfs
LineUuid == <<"U","U","I","D","=","a","b"," ","/","d","a","t","a"," ","x","f","s">>
\* # /dev/vda1 old
LineComment == <<"#"," ","/","d","e","v","/","v","d","a","1"," ","o","l","d">>
\* (an empty line)
LineBlank == <<>>
\* /dev/vdb2
LineOneField == <<"/","d","e","v","/","v","d","b","2">>
\*  /dev/vdb1<tab>/mnt/Storage xfs
LineIndented == <<" ","/","d","e","v","/","v","d","b","1","\t","/","m","n","t","/","S","t","o","r","a","g","e"," ","x","f","s">>
\* srv:/dev/vda /data nfs
LineNfs == <<"s","r","v",":","/","d","e","v","/","v","d","a"," ","/","d","a","t","a"," ","n","f","s">>
\* GRUB_CMDLINE_LINUX=root=/dev/vda1
GrubDefaultVda == <<"G","R","U","B","_","C","M","D","L","I","N","E","_","L","I","N","U","X","=","r","o","o","t","=","/","d","e","v","/","v","d","a","1">>
\* GRUB_TIMEOUT=5
GrubDefaultPlain == <<"G","R","U","B","_","T","I","M","E","O","U","T","=","5">>
\* linux /vmlinuz root=/dev/vda2
GrubCfgVda == <<"l","i","n","u","x"," ","/","v","m","l","i","n","u","z"," ","r","o","o","t","=","/","d","e","v","/","v","d","a","2">>
\* linux /vmlinuz root=UUID=ab
GrubCfgPlain == <<"l","i","n","u","x"," ","/","v","m","l","i","n","u","z"," ","r","o","o","t","=","U","U","I","D","=","a","b">>

File(text) == [exists |-> TRUE, text |-> text]

\* a text file of the given lines, each ended by a newline
Doc(ls) == Join(ls, Newline) \o Newline

RECURSIVE SeqsUpTo(_, _)
\* the sequences over S of length at most n
SeqsUpTo(S, n) ==
  IF n = 0 THEN {<<>>}
  ELSE LET shorter == SeqsUpTo(S, n - 1)
       IN  shorter \cup {Append(q, x) : q \in shorter, x \in S}

LinePool ==
  {LineRoot, LineBackup, LineData, LineUuid, LineComment, LineBlank,
   LineOneField, LineIndented, LineNfs}

\* every /etc/fstab of at most MaxLines lines over the pool, each line ended
\* by a newline; the empty file; the files of one line without final newline
GeneratedDocs ==
  {Doc(ls) : ls \in SeqsUpTo(LinePool, MaxLines) \ {<<>>}}
    \cup {<<>>}
    \cup {l : l \in LinePool}

\* /boot/efi is a directory holding EFI
EfiTree == [efi_exists |-> TRUE, efi_is_dir |-> TRUE, efi_payload |-> TRUE]

\* what may exist at /boot/efi: nothing, a file, a directory without EFI, a
\* directory with EFI
Trees ==
  {NoTree,
   [efi_exists |-> TRUE, efi_is_dir |-> FALSE, efi_payload |-> FALSE],
   [efi_exists |-> TRUE, efi_is_dir |-> TRUE, efi_payload |-> FALSE],
   EfiTree}

\* guests: a mount table with the /etc/fstab it was read from
Guests ==
  {[table |-> (MpRoot :> Vda1) @@ (MpBoot :> Vda2) @@ (MpBackup :> Vdb1),
    fstab |-> Doc(<<LineRoot, LineBoot, LineBackup>>)],
   [table |-> (MpRoot :> Vda1) @@ (MpBootEfi :> Vda2) @@ (MpData :> Vda3),
    fstab |-> Doc(<<LineRoot, LineEfi, LineData>>)]}

\* the boot loader files of a guest: /etc/default/grub, grub2/grub.cfg, grub/grub.cfg
GrubFiles ==
  {<<File(GrubDefaultVda), File(GrubCfgVda), NoFile>>,
   <<File(GrubDefaultPlain), NoFile, File(GrubCfgVda)>>}

FilesOf(fstab, bak, grub) ==
  [p \in ConfigPaths |->
     CASE p = "/etc/fstab" -> fstab
       [] p = "/etc/fstab.bak.migration" -> bak
       [] p = "/etc/default/grub" -> grub[1]
       [] p = "/boot/grub2/grub.cfg" -> grub[2]
       [] p = "/boot/grub/grub.cfg" -> grub[3]]

RootsReported == {<<>>, <<"/dev/sda1">>, <<"/dev/sda1", "/dev/sda2">>}

(***************************************************************************)
(* The whole run of main on the guests.                                     *)
(***************************************************************************)
Init ==
  /\ InitLocals
  /\ roots \in RootsReported
  /\ devices \in {{DevVda}, {DevSda}}
  /\ tree \in {NoTree, EfiTree}
  /\ \E guest \in Guests, grub \in GrubFiles :
       /\ mountpoints = guest.table
       /\ files = FilesOf(File(guest.fstab), NoFile, grub)
  /\ image0 = files

Next ==
  \/ Launch
  \/ guest_mount
  \/ DetectBootMode
  \/ fix_fstab_for_scaleway
  \/ fix_grub_for_scaleway
  \/ BuildActions
  \/ RunAction
  \/ Shutdown
  \/ Close

Spec == Init /\ [][Next]_vars

(***************************************************************************)
(* The whole run of main on a UEFI guest, the runner run to its end: main   *)
(* is one sequential thread, so the loop over the actions and the call of   *)
(* g.shutdown() that follows it are taken when they can be.                 *)
(***************************************************************************)
InitLive ==
  /\ InitLocals
  /\ roots = <<"/dev/sda1">>
  /\ devices = {DevVda}
  /\ tree = EfiTree
  /\ mountpoints = (MpRoot :> Vda1) @@ (MpBootEfi :> Vda2) @@ (MpData :> Vda3)
  /\ files = FilesOf(File(Doc(<<LineRoot, LineEfi, LineData>>)), NoFile,
                     <<File(GrubDefaultVda), File(GrubCfgVda), NoFile>>)
  /\ image0 = files

SpecLive == InitLive /\ [][Next]_vars /\ WF_vars(RunAction) /\ WF_vars(Shutdown)

(***************************************************************************)
(* Boot-mode detection on every tree.                                       *)
(***************************************************************************)
InitDetect ==
  /\ InitLocals
  /\ roots = <<"/dev/sda1">>
  /\ mountpoints = (MpRoot :> Vda1) @@ (MpBootEfi :> Vda2)
  /\ devices = {DevSda}
  /\ tree \in Trees
  /\ \E grub2 \in {NoFile, File(GrubCfgVda)}, grub \in {NoFile, File(GrubCfgPlain)} :
       files = FilesOf(File(Doc(<<LineRoot, LineEfi>>)), NoFile,
                       <<File(GrubDefaultPlain), grub2, grub>>)
  /\ image0 = files

NextDetect == Launch \/ guest_mount \/ DetectBootMode

SpecDetect == InitDetect /\ [][NextDetect]_vars

(***************************************************************************)
(* The filesystem-table pass on every generated /etc/fstab.                 *)
(***************************************************************************)
InitFstab ==
  /\ InitLocals
  /\ roots = <<"/dev/sda1">>
  /\ mountpoints = (MpRoot :> Vda1)
  /\ devices \in DeviceSets
  /\ tree = NoTree
  /\ \E fstab \in {NoFile} \cup {File(d) : d \in GeneratedDocs} :
       files = FilesOf(fstab, NoFile, <<NoFile, NoFile, NoFile>>)
  /\ image0 = files

NextFstab == Launch \/ guest_mount \/ DetectBootMode \/ fix_fstab_for_scaleway

SpecFstab == InitFstab /\ [][NextFstab]_vars

(***************************************************************************)
(* The mounter on every generated mount table.                              *)
(***************************************************************************)
InitMount ==
  /\ InitLocals
  /\ roots \in RootsReported
  /\ mountpoints \in GeneratedTables
  /\ devices \in DeviceSets
  /\ files = [p \in ConfigPaths |-> NoFile]
  /\ image0 = files
  /\ tree = NoTree

NextMount == Launch \/ guest_mount

SpecMount == InitMount /\ [][NextMount]_vars

(***************************************************************************)
(* Properties of the mounter.                                               *)
(***************************************************************************)
\* the mountpoints of the pool that hold none of backup, data, storage
KeywordFree == {MpRoot, MpBoot, MpBootEfi, MpHome}

\* the mountpoints of a sequence of <<mountpoint, ...>> tuples
Firsts(seq) == [k \in 1..Len(seq) |-> seq[k][1]]

\* guest_mount walked its whole loop and returned
MounterReturned == pc = "detect"

\* a is a path ancestor of d
IsAncestor(a, d) ==
  /\ a # d
  /\ \/ a = Slash /\ StartsWith(d, Slash)
     \/ StartsWith(d, a \o Slash)

\* C1: a declared entry whose mountpoint holds none of the keywords backup,
\* data, storage is never skipped: whatever its device and whatever the
\* session devices, the loop calls g.mount on it when it reaches it, so every
\* such entry has been attempted when the mounter returns.
C1_KeywordFreeNeverSkipped ==
  /\ \A k \in 1..Len(skipped) : skipped[k] \notin KeywordFree
  /\ pc = "mount_loop" =>
       \A k \in 1..(idx - 1) :
         plan[k][1] \in KeywordFree => InList(plan[k][1], Firsts(attempted))
  /\ MounterReturned =>
       \A mp \in DOMAIN mountpoints :
         mp \in KeywordFree => InList(mp, Firsts(attempted))

\* a keyword-free entry on a device that is not in the session was attempted,
\* while an entry with a keyword on the same missing disk was skipped
C1_Witness ==
  /\ MounterReturned
  /\ DevVdb \notin devices
  /\ MpHome \in DOMAIN mountpoints /\ mountpoints[MpHome] = Vdb1
  /\ InList(MpHome, Firsts(attempted))
  /\ InList(MpBackup, skipped)

\* C3: a g.mount that raises never leaves the mounter and never stops the
\* loop: the mounter returns after every entry was attempted or skipped, and
\* what it returns is exactly the mountpoints whose g.mount returned, in the
\* order of the attempts.
C3_MountFailureTolerated ==
  /\ ~(pc = "aborted" /\ attempted # <<>>)
  /\ mounted = Firsts(SelectSeq(attempted, LAMBDA a : a[2] = "ok"))
  /\ MounterReturned =>
       /\ mounted_points = Firsts(SelectSeq(attempted, LAMBDA a : a[2] = "ok"))
       /\ Len(attempted) + Len(skipped) = Cardinality(DOMAIN mountpoints)
       /\ \A mp \in DOMAIN mountpoints :
            InList(mp, Firsts(attempted)) \/ InList(mp, skipped)
       /\ \A k \in 1..Len(skipped) : ~InList(skipped[k], mounted_points)

\* the first mount raised, a later one returned, and the mounter returned it
C3_Witness ==
  /\ MounterReturned
  /\ Len(attempted) >= 2
  /\ attempted[1][2] = "raised"
  /\ attempted[2][2] = "ok"
  /\ mounted_points = <<attempted[2][1]>>

C2_AbortBeforeMount ==
  Len(roots) # 1 =>
    /\ pc \in {"launch", "inspect_os", "aborted"}
    /\ attempted = <<>>
    /\ executed = <<>>
    /\ files = image0
    /\ \A k \in 1..Len(calls) : calls[k][2] \in {"launch", "inspect_os"}
    /\ InList(<<"guest_mount", "inspect_os", "ok">>, calls) =>
         pc = "aborted" /\ error = "roots"

\* the inspection returned two roots and the run is aborted
C2_Witness ==
  /\ Len(roots) = 2
  /\ InList(<<"guest_mount", "inspect_os", "ok">>, calls)
  /\ pc = "aborted"
  /\ error = "roots"

(***************************************************************************)
(* Properties of the filesystem-table pass.                                 *)
(***************************************************************************)
FstabPath == "/etc/fstab"
BackupPath == "/etc/fstab.bak.migration"

\* a call of fix_fstab_for_scaleway to op was made
FstabCalled(op) ==
  \E k \in 1..Len(calls) : calls[k][1] = "fix_fstab" /\ calls[k][2] = op

\* the text the pass computes from the /etc/fstab of the image differs from it
FstabChanges ==
  /\ image0[FstabPath].exists
  /\ fstab_rewrite(image0[FstabPath].text, devices) # image0[FstabPath].text

\* C5: the backup /etc/fstab.bak.migration is created, by the rename of the
\* original, if and only if the rewritten text differs from the original:
\* with an unchanged text neither g.mv nor g.write is called and no backup
\* exists; with a changed text the rename is what follows the comparison, and
\* the backup exists, holding the original, as soon as the rename returned.
C5_BackupIffChanged ==
  LET changes == FstabChanges IN
  /\ (FstabCalled("mv") \/ FstabCalled("write") \/ files[BackupPath].exists)
       => changes
  /\ files[BackupPath].exists <=> InList(<<"fix_fstab", "mv", "ok">>, calls)
  /\ files[BackupPath].exists => files[BackupPath] = image0[FstabPath]
  /\ (InList(<<"fix_fstab", "list_devices", "ok">>, calls) /\ changes)
       => (pc = "fstab_mv" \/ FstabCalled("mv"))
  /\ pc \in {"fstab_mv", "fstab_write"} => changes

\* the pass ended on a changed text: the backup holds the original and
\* /etc/fstab the rewritten text
C5_Witness ==
  /\ pc = "grub_default"
  /\ FstabChanges
  /\ files[BackupPath] = image0[FstabPath]
  /\ files[FstabPath] = File(fstab_rewrite(image0[FstabPath].text, devices))

\* C6: at every point during and after the pass, also when g.mv or g.write
\* raises, the original text of /etc/fstab is held by /etc/fstab or by
\* /etc/fstab.bak.migration; g.write is never called before g.mv has returned.
C6_OriginalRecoverable ==
  /\ image0[FstabPath].exists =>
       (files[FstabPath] = image0[FstabPath] \/ files[BackupPath] = image0[FstabPath])
  /\ \A k \in 1..Len(calls) :
       (calls[k][1] = "fix_fstab" /\ calls[k][2] = "write") =>
         \E j \in 1..(k - 1) : calls[j] = <<"fix_fstab", "mv", "ok">>

\* g.write raised and left a part of the new text: the backup holds the original
C6_Witness ==
  /\ InList(<<"fix_fstab", "write", "raised">>, calls)
  /\ files[FstabPath].exists
  /\ files[FstabPath] # image0[FstabPath]
  /\ files[BackupPath] = image0[FstabPath]

\* C8: the rewrite is idempotent: for every /etc/fstab the pass has read and
\* every set of session devices, the pass applied to its own output, with the
\* same devices, gives that output again, so that a second pass finds nothing
\* changed and calls neither g.mv nor g.write.  The text the pass computes and
\* writes is that output.
C8_RewriteIdempotent ==
  InList(<<"fix_fstab", "cat", "ok">>, calls) =>
    LET once == fstab_rewrite(original_content, devices)
        twice == fstab_rewrite(once, devices)
    IN
    /\ original_content = image0[FstabPath].text
    /\ twice = once
    /\ fstab_after_compare(twice, once) = "grub_default"
    /\ InList(<<"fix_fstab", "list_devices", "ok">>, calls) => fstab_content = once
    /\ InList(<<"fix_fstab", "write", "ok">>, calls) => files[FstabPath] = File(once)

\* the pass wrote a text in which it substituted a device and commented out a line
C8_Witness ==
  /\ InList(<<"fix_fstab", "write", "ok">>, calls)
  /\ Contains(image0[FstabPath].text, DevVda)
  /\ ~Contains(image0[FstabPath].text, CommentSuffix)
  /\ Contains(files[FstabPath].text, CommentSuffix)
  /\ Contains(files[FstabPath].text, DevSda)

(***************************************************************************)
(* Properties of the backups of the rewritten documents.                    *)
(***************************************************************************)
RewrittenPaths ==
  {"/etc/fstab", "/etc/default/grub", "/boot/grub2/grub.cfg", "/boot/grub/grub.cfg"}

\* C7 as the spec states it: whenever one of the rewritten documents no
\* longer holds its original text, another file holds that original.
C7_BackupBeforeEveryOverwrite ==
  \A p \in RewrittenPaths :
    (image0[p].exists /\ files[p] # image0[p]) =>
      \E b \in ConfigPaths \ {p} : files[b] = image0[p]

\* C7, amended: for /etc/fstab the backup holding the original text exists
\* before the overwrite: when g.write is about to be called, and ever after
\* /etc/fstab stopped holding its original text.  (The boot loader files are
\* written in place, with no backup.)
C7_FstabBackupBeforeOverwrite ==
  /\ pc = "fstab_write" => files[BackupPath] = image0[FstabPath]
  /\ (image0[FstabPath].exists /\ files[FstabPath] # image0[FstabPath]) =>
       files[BackupPath] = image0[FstabPath]
  /\ FstabCalled("write") => files[BackupPath] = image0[FstabPath]

\* /etc/fstab was overwritten with the rewritten text, and so was a grub file
C7_Witness ==
  /\ InList(<<"fix_fstab", "write", "ok">>, calls)
  /\ files[FstabPath].exists
  /\ files[FstabPath] # image0[FstabPath]
  /\ files[BackupPath] = image0[FstabPath]
  /\ files["/etc/default/grub"] # image0["/etc/default/grub"]

(***************************************************************************)
(* Properties of the boot-mode detection.                                   *)
(***************************************************************************)
\* detect_boot_mode was entered
DetectEntered == \E k \in 1..Len(calls) : calls[k][1] = "detect_boot_mode"

\* C9: what detect_boot_mode returns is uefi exactly when /boot/efi exists,
\* is a directory and /boot/efi/EFI exists, whether a legacy grub.cfg exists
\* or not, and legacy in every other case, also when no grub.cfg exists: it
\* is always one of the two.
C9_BootModeDecision ==
  /\ boot_mode \in {"", "uefi", "legacy"}
  /\ boot_mode # "" =>
       /\ DetectEntered
       /\ boot_mode = "uefi" <=>
            (tree.efi_exists /\ tree.efi_is_dir /\ tree.efi_payload)
       /\ boot_mode = "legacy" <=>
            ~(tree.efi_exists /\ tree.efi_is_dir /\ tree.efi_payload)
  /\ (pc = "fstab") => boot_mode \in {"uefi", "legacy"}

\* uefi was returned although a legacy grub.cfg exists
C9_Witness ==
  /\ boot_mode = "uefi"
  /\ files["/boot/grub2/grub.cfg"].exists
  /\ pc = "fstab"

\* C10 as the spec states it: detect_boot_mode never fails: once entered it
\* has returned a boot mode, also when a toolkit call it makes raises.
C10_DetectNeverFails ==
  DetectEntered => (boot_mode \in {"uefi", "legacy"} /\ pc # "aborted")

(***************************************************************************)
(* Properties of the action list and of the runner.                        *)
(***************************************************************************)
\* the action list has been assembled
Assembled == pc = "run" \/ pc = "close" \/ pc = "done" \/ executed # <<>>

\* g.mount of /boot/efi returned in the mounter
EfiMounted == InList(<<BootEfi, "ok">>, attempted)

\* the positions of the unmount of /boot/efi in the action list
UmountPositions == {k \in 1..Len(actions) : actions[k] = UmountEfi}

\* C11: the assembled list is the base list, unmodified and in order, then
\* the unmount of /boot/efi exactly when the detected boot mode is uefi and
\* g.mount of /boot/efi returned in the mounter, then the relabel of /boot and
\* the relabel of / as the last two actions, whatever the boot mode; an
\* unmount of /boot/efi is never invoked when /boot/efi was not mounted.
C11_ActionListAssembly ==
  /\ Assembled =>
       LET n == Len(BASE_ACTIONS)
           m == Len(actions)
       IN  /\ m >= n + 2
           /\ SubSeq(actions, 1, n) = BASE_ACTIONS
           /\ actions[m - 1] = SelinuxRelabel[1]
           /\ actions[m] = SelinuxRelabel[2]
           /\ actions[m - 1][3] = "/boot" /\ actions[m][3] = "/"
           /\ IF boot_mode = "uefi" /\ EfiMounted
              THEN m = n + 3 /\ UmountPositions = {n + 1}
              ELSE m = n + 2 /\ UmountPositions = {}
  /\ \A k \in 1..Len(executed) :
       actions[executed[k]][1] = "umount" =>
         (actions[executed[k]] = UmountEfi /\ EfiMounted /\ boot_mode = "uefi")
  /\ (\E k \in 1..Len(calls) : calls[k][1] = "main" /\ calls[k][2] = "umount")
       => EfiMounted

\* uefi with /boot/efi mounted: the unmount is in the list and was invoked
C11_Witness ==
  /\ boot_mode = "uefi"
  /\ EfiMounted
  /\ Len(actions) = Len(BASE_ACTIONS) + 3
  /\ actions[Len(BASE_ACTIONS) + 1] = UmountEfi
  /\ \E k \in 1..Len(executed) : actions[executed[k]] = UmountEfi

\* uefi with the mount of /boot/efi failed: the list holds no unmount
C11_WitnessNotMounted ==
  /\ pc = "run"
  /\ boot_mode = "uefi"
  /\ InList(<<BootEfi, "raised">>, attempted)
  /\ UmountPositions = {}

\* a call the runner made for an action of the list
RunnerCall(c) == c[1] = "main" /\ c[2] \notin {"launch", "shutdown", "close"}

\* the runner calls, in order
RunnerCalls == SelectSeq(calls, RunnerCall)

\* C12: the first action that fails, by raising or by returning a nonzero
\* integer, and whose name is neither umount nor selinux_relabel stops the
\* run: its call is the last toolkit call of the run, no later action of the
\* list is invoked, and the run has ended with its error.
C12_FatalFailureStops ==
  executed # <<>> =>
    LET made == RunnerCalls IN
    /\ Len(made) = Len(executed)
    /\ \A k \in 1..Len(made) :
         /\ executed[k] = k
         /\ made[k][2] = actions[k][1]
         /\ (made[k][3] # "ok" /\ made[k][2] \notin NonCritical) =>
              /\ k = Len(made)
              /\ calls[Len(calls)] = made[k]
              /\ pc = "aborted"
              /\ error = made[k][2]
              /\ ai = k

\* the fifth action, a chmod, returned a nonzero integer: the run ended there
C12_Witness ==
  /\ pc = "aborted"
  /\ error = "chmod"
  /\ calls[Len(calls)] = <<"main", "chmod", "nonzero">>
  /\ executed = <<1, 2, 3, 4, 5>>
  /\ Len(actions) > 5

\* an allow-listed action failed in the runner
AllowListedFailed ==
  \E k \in 1..Len(calls) :
    RunnerCall(calls[k]) /\ calls[k][3] # "ok" /\ calls[k][2] \in NonCritical

\* g.shutdown() was called
ShutdownCalled ==
  \E k \in 1..Len(calls) : calls[k][1] = "main" /\ calls[k][2] = "shutdown"

\* the runner is past the failures of the allow-listed actions: no exception
\* of the runner ended the run, and the loop stands after the failed action
AllowListedTolerated ==
  AllowListedFailed =>
    /\ error \notin NonCritical
    /\ pc = "aborted" => error \in {"shutdown", "close"}
    /\ \A k \in 1..Len(RunnerCalls) :
         (RunnerCalls[k][3] # "ok" /\ RunnerCalls[k][2] \in NonCritical) => ai > k
    /\ ShutdownCalled => Len(executed) = Len(actions)

\* C13: a failure, by exception or nonzero integer, of an action named umount
\* or selinux_relabel never stops the run: the runner goes on to the actions
\* after it, every action of the list is invoked, and the run reaches
\* g.shutdown().
C13_AllowListedFailureContinues ==
  /\ []AllowListedTolerated
  /\ AllowListedFailed ~> (ShutdownCalled /\ Len(executed) = Len(actions))

\* the unmount of /boot/efi raised, both relabels were still invoked and
\* g.shutdown() was called
C13_Witness ==
  /\ InList(<<"main", "umount", "raised">>, calls)
  /\ Len(actions) = Len(BASE_ACTIONS) + 3
  /\ Len(executed) = Len(actions)
  /\ ShutdownCalled

(***************************************************************************)
(* Properties of the order of the steps of main.                           *)
(***************************************************************************)
\* the step of main a toolkit call belongs to, in the order of main
StepOf(c) ==
  IF c[1] = "main"
  THEN IF c[2] = "launch" THEN 0
       ELSE IF c[2] = "shutdown" THEN 6
       ELSE IF c[2] = "close" THEN 7
       ELSE 5
  ELSE IF c[1] = "guest_mount" THEN 1
  ELSE IF c[1] = "detect_boot_mode" THEN 2
  ELSE IF c[1] = "fix_fstab" THEN 3
  ELSE 4

\* a toolkit call of the given step was made
StepCalled(n) == \E k \in 1..Len(calls) : StepOf(calls[k]) = n

\* C14: the steps run in the order mount, detect, rewrite fstab, rewrite
\* grub, actions: no toolkit call of an earlier step follows a call of a later
\* one; when a rewrite pass starts the mounter has walked every declared entry
\* and a boot mode has been returned; when a remediation action is invoked
\* both rewrite passes have run and returned.
C14_StepOrder ==
  LET steps == [k \in 1..Len(calls) |-> StepOf(calls[k])]
      called(n) == \E k \in 1..Len(steps) : steps[k] = n
  IN
  /\ \A k \in 1..(Len(steps) - 1) : steps[k] <= steps[k + 1]
  /\ (called(3) \/ called(4) \/ pc \in {"fstab", "grub_default"}) =>
       /\ Len(attempted) + Len(skipped) = Cardinality(DOMAIN mountpoints)
       /\ mounted_points = mounted
       /\ called(2)
       /\ boot_mode \in {"uefi", "legacy"}
  /\ called(4) => calls[Len(calls)][1] # "fix_fstab"
  /\ (called(5) \/ executed # <<>>) =>
       /\ called(3)
       /\ called(4)
       /\ pc \in {"run", "close", "done", "aborted"}
  /\ pc \in {"build_actions", "run"} => (called(3) /\ called(4))

\* the run ended after calls of every step, the two rewrite passes having
\* written their files before the first action
C14_Witness ==
  /\ pc = "done"
  /\ \A n \in 0..7 : StepCalled(n)
  /\ InList(<<"fix_fstab", "write", "ok">>, calls)
  /\ InList(<<"fix_grub", "write", "ok">>, calls)

(***************************************************************************)
(* Properties of the boot-loader-config pass.                              *)
(***************************************************************************)
\* the existence tests fix_grub_for_scaleway made: one opens the handling of
\* each target file
GrubAttempts ==
  Len(SelectSeq(calls, LAMBDA c : c[1] = "fix_grub" /\ c[2] = "exists"))

\* fix_grub_for_scaleway has returned
GrubPassReturned == pc = "build_actions"

\* C15 as the spec states it: each of the three target files is handled
\* independently: when the pass returns it has attempted every one of them,
\* also when a toolkit call on one of them raised.
C15_GrubFilesIndependent ==
  GrubPassReturned => GrubAttempts = 1 + Len(grub_cfg_paths)

(***************************************************************************)
(* The scenario of a guest with a second disk that the session lacks.       *)
(***************************************************************************)
\* the guest declares / on /dev/vda1, /boot on /dev/vda2 and /backup on
\* /dev/vdb1, the session has /dev/vda alone, and no toolkit call has failed
ScenarioFstab == Doc(<<LineRoot, LineBoot, LineBackup>>)

ScenarioSecondDisk ==
  /\ mountpoints = (MpRoot :> Vda1) @@ (MpBoot :> Vda2) @@ (MpBackup :> Vdb1)
  /\ image0[FstabPath] = File(ScenarioFstab)
  /\ devices = {DevVda}
  /\ \A k \in 1..Len(calls) : calls[k][3] = "ok"

\* /dev/sda1 / xfs
LineRootSda == DevSda \o <<"1", " ", "/", " ", "x", "f", "s">>
\* /dev/sda2 /boot xfs
LineBootSda == DevSda \o <<"2", " ", "/", "b", "o", "o", "t", " ", "x", "f", "s">>
\* # /dev/vdb1 /backup xfs # Commented by migration - disk not available
LineBackupCommented == CommentPrefix \o LineBackup \o CommentSuffix

\* the /etc/fstab the scenario expects
ScenarioRewritten == Doc(<<LineRootSda, LineBootSda, LineBackupCommented>>)

\* C16: in the scenario / and /boot are mounted and /backup is skipped, and
\* the rewritten /etc/fstab keeps the lines of / and /boot active, with
\* /dev/sda for /dev/vda, and holds the line of /backup commented out, with
\* the migration marker.
C16_SecondDiskScenario ==
  ScenarioSecondDisk =>
    /\ (pc = "mount_loop" /\ idx > Len(plan)) =>
         (mounted = <<MpRoot, MpBoot>> /\ skipped = <<MpBackup>>)
    /\ StepCalled(2) =>
         /\ mounted_points = <<MpRoot, MpBoot>>
         /\ attempted = << <<MpRoot, "ok">>, <<MpBoot, "ok">> >>
         /\ skipped = <<MpBackup>>
    /\ InList(<<"fix_fstab", "list_devices", "ok">>, calls) =>
         fstab_content = ScenarioRewritten
    /\ StepCalled(4) =>
         /\ files[FstabPath] = File(ScenarioRewritten)
         /\ files[BackupPath] = image0[FstabPath]

\* the scenario ran to its end without a failure
C16_Witness ==
  /\ ScenarioSecondDisk
  /\ pc = "done"
  /\ mounted_points = <<MpRoot, MpBoot>>
  /\ skipped = <<MpBackup>>
  /\ Split(files[FstabPath].text, "\n")[3] = LineBackupCommented
  /\ StartsWith(LineBackupCommented, Hash)
  /\ ~StartsWith(Split(files[FstabPath].text, "\n")[1], Hash)

(***************************************************************************)
(* Properties of the lines the filesystem-table pass leaves alone.          *)
(***************************************************************************)
\* a data line (not blank, not a comment) whose first field does not start
\* with /dev/
NonDeviceDataLine(line) ==
  /\ Strip(line) # <<>>
  /\ ~StartsWith(Strip(line), Hash)
  /\ ~StartsWith(SplitWs(line)[1], DevPrefix)

\* C17 as the spec states it: a data line whose first field does not start
\* with /dev/ is never rewritten: the text the pass computes holds it, at
\* its place, identical to the line read, whatever the session devices.
C17_NonDeviceLinesUntouched ==
  InList(<<"fix_fstab", "list_devices", "ok">>, calls) =>
    LET read == Split(original_content, "\n")
        computed == Split(fstab_content, "\n")
    IN  /\ Len(computed) = Len(read)
        /\ \A k \in 1..Len(read) :
             NonDeviceDataLine(read[k]) => computed[k] = read[k]

\* C17, amended: a data line whose first field does not start with /dev/ is
\* never commented out, whatever the session devices and its mountpoint: the
\* text the pass computes holds it at its place, changed by nothing but the
\* substitution of /dev/sda for /dev/vda wherever its text holds /dev/vda,
\* and identical to the line read when it holds no /dev/vda.
C17_NonDeviceLinesNeverCommented ==
  InList(<<"fix_fstab", "list_devices", "ok">>, calls) =>
    LET read == Split(original_content, "\n")
        computed == Split(fstab_content, "\n")
    IN  /\ Len(computed) = Len(read)
        /\ \A k \in 1..Len(read) :
             NonDeviceDataLine(read[k]) =>
               /\ Len(computed[k]) = Len(read[k])
               /\ NonDeviceDataLine(computed[k])
               /\ computed[k] = Replace(read[k], DevVda, DevSda)
               /\ ~Contains(read[k], DevVda) => computed[k] = read[k]

\* a UUID= line of /data was kept as read while the /dev/vdb1 line of
\* /backup, on a disk the session lacks, was commented out
C17_Witness ==
  /\ InList(<<"fix_fstab", "list_devices", "ok">>, calls)
  /\ DevVdb \notin devices
  /\ original_content = Doc(<<LineUuid, LineBackup>>)
  /\ fstab_content = Doc(<<LineUuid, CommentPrefix \o LineBackup \o CommentSuffix>>)

(***************************************************************************)
(* Properties of the session teardown.                                      *)
(***************************************************************************)
\* the session was started: g.launch() returned
SessionStarted == InList(<<"main", "launch", "ok">>, calls)

\* the run is over: main returned or an exception left it
RunEnded == pc = "done" \/ pc = "aborted"

\* the calls of main to the given function, in order
MainCalls(op) == SelectSeq(calls, LAMBDA c : c[1] = "main" /\ c[2] = op)

\* C18 as the spec states it: every run that started the session has, when
\* it is over, called g.shutdown() and then g.close(), each exactly once and
\* as its last two toolkit calls, whether or not an action failed.
C18_TeardownUnconditional ==
  (SessionStarted /\ RunEnded) =>
    /\ Len(MainCalls("shutdown")) = 1
    /\ Len(MainCalls("close")) = 1
    /\ Len(calls) >= 2
    /\ calls[Len(calls) - 1][2] = "shutdown"
    /\ calls[Len(calls)][2] = "close"

(***************************************************************************)
(* Properties of the mounter and the rewriter together.                     *)
(***************************************************************************)
\* the lines of /etc/fstab as the image held it at launch
DeclaredLines == Split(image0[FstabPath].text, "\n")

\* line k of the /etc/fstab of the image declares the entry (device,
\* mountpoint) of the guest mount table
LineDeclares(k, mountpoint) ==
  LET parts == SplitWs(DeclaredLines[k]) IN
  /\ mountpoint \in DOMAIN mountpoints
  /\ Len(parts) >= 2
  /\ parts[1] = mountpoints[mountpoint]
  /\ parts[2] = mountpoint

\* line k of the text the pass computed is a commented-out copy, with the marker
LineCommentedOut(k) ==
  LET computed == Split(fstab_content, "\n") IN
  /\ k <= Len(computed)
  /\ StartsWith(computed[k], CommentPrefix)
  /\ Contains(computed[k], CommentSuffix)

\* C19 as the spec states it: mounter and rewriter agree on availability: a
\* line of /etc/fstab that declares an entry of the guest mount table is
\* commented out by the pass only if the mounter skipped that entry; the line
\* of an entry the mounter attempted to mount is never commented out.
C19_MounterRewriterAgree ==
  InList(<<"fix_fstab", "list_devices", "ok">>, calls) =>
    \A k \in 1..Len(DeclaredLines) :
      \A mountpoint \in DOMAIN mountpoints :
        (LineDeclares(k, mountpoint) /\ LineCommentedOut(k)) =>
          /\ InList(mountpoint, skipped)
          /\ ~InList(mountpoint, Firsts(attempted))

(***************************************************************************)
(* Properties of the filesystem table when the actions start.               *)
(***************************************************************************)
\* the runner has started on the action list
ActionsStarted == pc = "run" \/ executed # <<>>

\* C20 as the spec states it: when the action list starts executing on an
\* image that held an /etc/fstab at launch, /etc/fstab exists and holds the
\* original text or the rewritten text, whatever toolkit calls of the
\* filesystem-table pass raised.
C20_FstabPresentAtActions ==
  (ActionsStarted /\ image0[FstabPath].exists) =>
    /\ files[FstabPath].exists
    /\ \/ files[FstabPath].text = image0[FstabPath].text
       \/ files[FstabPath].text = fstab_rewrite(image0[FstabPath].text, devices)

====
